---- MODULE Spec2Model ----
(***************************************************************************)
(* Reliabot: the tool-call gateway (mcp_gcloud_compute_http.py), its stdio *)
(* variant (mcp_gcloud_compute.py) and the agent-side tool functions with  *)
(* the bounded action ledger (app.py).                                     *)
(*                                                                         *)
(* Python values that cross json.dumps / json.loads are modelled as tagged *)
(* JSON values; JSON text is a sequence of characters.  A run of ordinary  *)
(* characters is one atom (for example "initialize"); the characters the   *)
(* encoder and the decoder treat specially (quote, backslash, line feed,   *)
(* brackets, comma, colon, blank) are always single atoms.                 *)
(***************************************************************************)
EXTENDS Integers, Sequences, FiniteSets, TLC

VARIABLES
    ACTION_MEMORY,  \* app.py: the deque of action records
    appended,       \* history: every record ever passed to ACTION_MEMORY.append
    recent,         \* last get_recent_gcp_actions call, or NoCall
    compute,        \* mcp_gcloud_compute_http.py: the global _compute
    computeStdio,   \* mcp_gcloud_compute.py: the global _compute
    request,        \* the request in flight or last served: [transport, raw]
    response,       \* what the server answered to it, or NoResponse
    pc,             \* where handle_mcp stands
    frame,          \* handle_mcp's locals
    calls,          \* Resource Client calls made while serving the request
    waiter,         \* the caller awaiting the response
    toolArgs,       \* the awaiting tool function's arguments
    outcome,        \* how the last tool function ended
    ledgerAtSend,   \* history: Len(appended) when the request was sent
    nCalls,         \* tool functions invoked so far
    backlog,        \* requests sent to /mcp that the event loop has not taken up
    invocations     \* tool functions running side by side: [kind, name, done]

vars == <<ACTION_MEMORY, appended, recent, compute, computeStdio, request,
          response, pc, frame, calls, waiter, toolArgs, outcome, ledgerAtSend,
          nCalls, backlog, invocations>>

-----------------------------------------------------------------------------
(* Bounds of the model *)

\* deque(maxlen=500), scaled down: the ledger's capacity C
Capacity == 3

\* appends explored beyond the capacity in the ledger specification
ExtraAppends == 2

\* tool functions the agent invokes in one behaviour of Spec
MaxCalls == 2

\* the counter of getOperation polls saturates here (the loop has no bound)
MaxOpPolls == 2

\* requests that may wait for the gateway's event loop at one time
MaxBacklog == 1

-----------------------------------------------------------------------------
(* JSON values *)

Min(a, b) == IF a < b THEN a ELSE b
Max(a, b) == IF a > b THEN a ELSE b

JNull == [t |-> "null"]
JBool(b) == [t |-> "bool", b |-> b]
JInt(n) == [t |-> "int", n |-> n]
JStr(s) == [t |-> "str", s |-> s]
JList(items) == [t |-> "list", items |-> items]
JObj(members) == [t |-> "obj", members |-> members]

\* a string that is one run of ordinary characters
S(atom) == JStr(<<atom>>)
\* the empty dict, the empty list, the empty string
EmptyObj == JObj(<<>>)
EmptyList == JList(<<>>)
EmptyStr == JStr(<<>>)

QUOTE == "\""
BACKSLASH == "\\"
LF == "<LF>"
Digit == <<"0", "1", "2", "3", "4", "5", "6", "7", "8", "9">>
Whitespace == {" ", LF, "<TAB>", "<CR>"}

\* dict key lookup: the index of key k among the members, 0 when absent
RECURSIVE KeyIndex(_, _, _)
KeyIndex(members, k, i) ==
    IF i > Len(members) THEN 0
    ELSE IF members[i][1] = k THEN i
    ELSE KeyIndex(members, k, i + 1)

IsObj(v) == v.t = "obj"
\* `k in d`
HasKey(d, k) == KeyIndex(d.members, <<k>>, 1) # 0
\* d[k], for a key that is present
Item(d, k) == d.members[KeyIndex(d.members, <<k>>, 1)][2]
\* d.get(k, default)
Get(d, k, default) == IF HasKey(d, k) THEN Item(d, k) ELSE default

\* Python truthiness of a JSON value: `not v` is ~Truthy(v)
Truthy(v) ==
    CASE v.t = "null" -> FALSE
      [] v.t = "bool" -> v.b
      [] v.t = "int" -> v.n # 0
      [] v.t = "str" -> v.s # <<>>
      [] v.t = "list" -> v.items # <<>>
      [] v.t = "obj" -> v.members # <<>>

-----------------------------------------------------------------------------
(* json.dumps: the encoder.  indent is a number of blanks, or NoIndent for  *)
(* the default (indent=None), which joins items with ", ".                  *)

NoIndent == -1

\* an encoder that escapes nothing
EscapeNothing(c) == <<c>>

\* the escape sequence json.dumps writes for one character of a string
EscapeChar(c) ==
    CASE c = QUOTE -> <<BACKSLASH, QUOTE>>
      [] c = BACKSLASH -> <<BACKSLASH, BACKSLASH>>
      [] c = LF -> <<BACKSLASH, "n">>
      [] OTHER -> <<c>>

\* the escaped characters of s[lo..hi], halving the range
RECURSIVE EscapeRange(_, _, _)
EscapeRange(s, lo, hi) ==
    IF lo > hi THEN <<>>
    ELSE IF lo = hi THEN EscapeChar(s[lo])
    ELSE LET mid == (lo + hi) \div 2
         IN EscapeRange(s, lo, mid) \o EscapeRange(s, mid + 1, hi)

EncodeStr(s) == <<QUOTE>> \o EscapeRange(s, 1, Len(s)) \o <<QUOTE>>

RECURSIVE DigitsOf(_)
DigitsOf(n) ==
    IF n < 0 THEN <<"-">> \o DigitsOf(-n)
    ELSE IF n < 10 THEN <<Digit[n + 1]>>
    ELSE DigitsOf(n \div 10) \o <<Digit[(n % 10) + 1]>>

RECURSIVE Blanks(_)
Blanks(n) == IF n <= 0 THEN <<>> ELSE <<" ">> \o Blanks(n - 1)

\* the line break and indentation written before an item at nesting `level`
NewlineIndent(indent, level) ==
    IF indent = NoIndent THEN <<>> ELSE <<LF>> \o Blanks(indent * level)

ItemSeparator(indent, level) ==
    IF indent = NoIndent THEN <<",", " ">>
    ELSE <<",">> \o NewlineIndent(indent, level)

KeySeparator == <<":", " ">>

RECURSIVE Encode(_, _, _), EncodeItems(_, _, _, _), EncodeMembers(_, _, _, _)
Encode(v, indent, level) ==
    CASE v.t = "null" -> <<"null">>
      [] v.t = "bool" -> <<IF v.b THEN "true" ELSE "false">>
      [] v.t = "int" -> DigitsOf(v.n)
      [] v.t = "str" -> EncodeStr(v.s)
      [] v.t = "list" ->
            IF v.items = <<>> THEN <<"[", "]">>
            ELSE <<"[">> \o NewlineIndent(indent, level + 1)
                 \o EncodeItems(v.items, 1, indent, level + 1)
                 \o NewlineIndent(indent, level) \o <<"]">>
      [] v.t = "obj" ->
            IF v.members = <<>> THEN <<"{", "}">>
            ELSE <<"{">> \o NewlineIndent(indent, level + 1)
                 \o EncodeMembers(v.members, 1, indent, level + 1)
                 \o NewlineIndent(indent, level) \o <<"}">>

EncodeItems(items, i, indent, level) ==
    Encode(items[i], indent, level)
    \o (IF i = Len(items) THEN <<>>
        ELSE ItemSeparator(indent, level)
             \o EncodeItems(items, i + 1, indent, level))

EncodeMembers(members, i, indent, level) ==
    EncodeStr(members[i][1]) \o KeySeparator
    \o Encode(members[i][2], indent, level)
    \o (IF i = Len(members) THEN <<>>
        ELSE ItemSeparator(indent, level)
             \o EncodeMembers(members, i + 1, indent, level))

\* json.dumps(v, indent=indent)
Dumps(v, indent) == Encode(v, indent, 0)

-----------------------------------------------------------------------------
(* json.loads: the decoder.  Every parser returns [ok, v, next]: whether it *)
(* succeeded, the value, and the index of the first character not read.     *)

ParseFail == [ok |-> FALSE, v |-> JNull, next |-> 0]
ParseOk(v, next) == [ok |-> TRUE, v |-> v, next |-> next]

RECURSIVE SkipWhitespace(_, _)
SkipWhitespace(text, i) ==
    IF i <= Len(text) /\ text[i] \in Whitespace
    THEN SkipWhitespace(text, i + 1)
    ELSE i

DigitValue(c) == CHOOSE d \in 0..9 : Digit[d + 1] = c
IsDigit(c) == \E d \in 1..10 : Digit[d] = c

\* the character an escape sequence \e stands for; "" when \e is no escape
Unescape(e) ==
    CASE e = QUOTE -> QUOTE
      [] e = BACKSLASH -> BACKSLASH
      [] e = "n" -> LF
      [] OTHER -> ""

\* the number of backslashes that immediately precede text[k], counted no
\* further back than index from
BackslashRun(text, k, from) ==
    CHOOSE r \in 0..(k - from) :
        /\ \A j \in (k - r)..(k - 1) : text[j] = BACKSLASH
        /\ (k - r = from \/ text[k - r - 1] # BACKSLASH)

\* text[k] is the second character of an escape sequence of the string that
\* starts at index from
Escaped(text, k, from) == BackslashRun(text, k, from) % 2 = 1

\* the first quote in text[lo..hi] that is not escaped, 0 when there is none
RECURSIVE ClosingQuote(_, _, _, _)
ClosingQuote(text, lo, hi, from) ==
    IF lo > hi THEN 0
    ELSE IF lo = hi
    THEN IF text[lo] = QUOTE /\ ~Escaped(text, lo, from) THEN lo ELSE 0
    ELSE LET mid == (lo + hi) \div 2
             left == ClosingQuote(text, lo, mid, from)
         IN IF left # 0 THEN left ELSE ClosingQuote(text, mid + 1, hi, from)

\* what text[k] contributes to the decoded string
DecodeChar(text, k, from) ==
    IF Escaped(text, k, from) THEN <<Unescape(text[k])>>
    ELSE IF text[k] = BACKSLASH THEN <<>>
    ELSE <<text[k]>>

RECURSIVE DecodeRange(_, _, _, _)
DecodeRange(text, lo, hi, from) ==
    IF lo > hi THEN <<>>
    ELSE IF lo = hi THEN DecodeChar(text, lo, from)
    ELSE LET mid == (lo + hi) \div 2
         IN DecodeRange(text, lo, mid, from) \o DecodeRange(text, mid + 1, hi, from)

\* the string whose opening quote is text[from - 1].  Strict mode: an
\* unknown escape or a control character inside the string is an error.
ParseString(text, from) ==
    LET close == ClosingQuote(text, from, Len(text), from) IN
    IF close = 0 THEN ParseFail
    ELSE IF \E k \in from..(close - 1) :
               IF Escaped(text, k, from) THEN Unescape(text[k]) = ""
               ELSE text[k] \in {LF, "<TAB>", "<CR>"}
    THEN ParseFail
    ELSE ParseOk(JStr(DecodeRange(text, from, close - 1, from)), close + 1)

RECURSIVE ParseInt(_, _, _)
ParseInt(text, i, acc) ==
    IF i <= Len(text) /\ IsDigit(text[i])
    THEN ParseInt(text, i + 1, 10 * acc + DigitValue(text[i]))
    ELSE ParseOk(JInt(acc), i)

RECURSIVE ParseValue(_, _), ParseArray(_, _, _), ParseObject(_, _, _)
ParseValue(text, i0) ==
    LET i == SkipWhitespace(text, i0) IN
    IF i > Len(text) THEN ParseFail
    ELSE CASE text[i] = "null" -> ParseOk(JNull, i + 1)
           [] text[i] = "true" -> ParseOk(JBool(TRUE), i + 1)
           [] text[i] = "false" -> ParseOk(JBool(FALSE), i + 1)
           [] text[i] = QUOTE -> ParseString(text, i + 1)
           [] text[i] = "[" ->
                LET j == SkipWhitespace(text, i + 1) IN
                IF j <= Len(text) /\ text[j] = "]" THEN ParseOk(EmptyList, j + 1)
                ELSE ParseArray(text, j, <<>>)
           [] text[i] = "{" ->
                LET j == SkipWhitespace(text, i + 1) IN
                IF j <= Len(text) /\ text[j] = "}" THEN ParseOk(EmptyObj, j + 1)
                ELSE ParseObject(text, j, <<>>)
           [] IsDigit(text[i]) -> ParseInt(text, i, 0)
           [] text[i] = "-" ->
                IF i + 1 <= Len(text) /\ IsDigit(text[i + 1])
                THEN LET r == ParseInt(text, i + 1, 0) IN ParseOk(JInt(-r.v.n), r.next)
                ELSE ParseFail
           [] OTHER -> ParseFail

\* at the start of an item; acc holds the items read so far
ParseArray(text, i, acc) ==
    LET item == ParseValue(text, i) IN
    IF ~item.ok THEN ParseFail
    ELSE LET j == SkipWhitespace(text, item.next) IN
         IF j > Len(text) THEN ParseFail
         ELSE IF text[j] = "]" THEN ParseOk(JList(Append(acc, item.v)), j + 1)
         ELSE IF text[j] = "," THEN ParseArray(text, j + 1, Append(acc, item.v))
         ELSE ParseFail

\* at the start of a key; acc holds the members read so far
ParseObject(text, i0, acc) ==
    LET i == SkipWhitespace(text, i0) IN
    IF i > Len(text) \/ text[i] # QUOTE THEN ParseFail
    ELSE LET key == ParseString(text, i + 1) IN
         IF ~key.ok THEN ParseFail
         ELSE LET c == SkipWhitespace(text, key.next) IN
              IF c > Len(text) \/ text[c] # ":" THEN ParseFail
              ELSE LET val == ParseValue(text, c + 1) IN
                   IF ~val.ok THEN ParseFail
                   ELSE LET j == SkipWhitespace(text, val.next)
                            members == Append(acc, <<key.v.s, val.v>>)
                        IN IF j > Len(text) THEN ParseFail
                           ELSE IF text[j] = "}" THEN ParseOk(JObj(members), j + 1)
                           ELSE IF text[j] = "," THEN ParseObject(text, j + 1, members)
                           ELSE ParseFail

\* json.loads(text): [ok, v]; ok is FALSE where json.loads raises
Loads(text) ==
    LET r == ParseValue(text, 1) IN
    IF r.ok /\ SkipWhitespace(text, r.next) > Len(text)
    THEN [ok |-> TRUE, v |-> r.v]
    ELSE [ok |-> FALSE, v |-> JNull]


\* a dict literal: pairs of <<key, value>>, each key one run of characters
Dict(pairs) == JObj([i \in 1..Len(pairs) |-> << <<pairs[i][1]>>, pairs[i][2] >>])

-----------------------------------------------------------------------------
(* app.py: the action ledger *)

\* a list that never evicts
AppendUnbounded(d, x) == Append(d, x)

\* deque(maxlen=Capacity).append(x): a full deque drops its oldest item
DequeAppend(d, x) ==
    IF Len(d) >= Capacity THEN Tail(d) \o <<x>> ELSE Append(d, x)

\* the record _record_gcp_action builds; ts is the logical time of the append
ActionRecord(ts, kind, project, zone, name, payload, result) ==
    [ts |-> ts, kind |-> kind, project |-> project, zone |-> zone,
     name |-> name, payload |-> payload, result |-> result]

\* a ledger that takes every record twice
RecordTwice(kind, project, zone, name, payload, result) ==
    LET rec == ActionRecord(Len(appended) + 1, kind, project, zone, name,
                            payload, result)
    IN /\ ACTION_MEMORY' = DequeAppend(DequeAppend(ACTION_MEMORY, rec), rec)
       /\ appended' = Append(Append(appended, rec), rec)

\* _record_gcp_action(kind, project, zone, name, payload, result)
RecordGcpAction(kind, project, zone, name, payload, result) ==
    LET rec == ActionRecord(Len(appended) + 1, kind, project, zone, name,
                            payload, result)
    IN /\ ACTION_MEMORY' = DequeAppend(ACTION_MEMORY, rec)
       /\ appended' = Append(appended, rec)

\* seq[start:] as Python slices: a negative start counts from the end, and
\* both ends are clamped
SliceFrom(seq, start) ==
    LET n == Len(seq)
        from == IF start < 0 THEN Max(n + start, 0) ELSE Min(start, n)
    IN SubSeq(seq, from + 1, n)

\* get_recent_gcp_actions(limit): list(ACTION_MEMORY)[-limit:]
GetRecentGcpActions(limit) == SliceFrom(ACTION_MEMORY, -limit)

\* a call of get_recent_gcp_actions: its argument, the ledger it read and
\* the list it returned
NoCall == [called |-> FALSE, limit |-> 0, ledger |-> <<>>, actions |-> <<>>]


-----------------------------------------------------------------------------
(* mcp_gcloud_compute_http.py: responses *)

NoRequest == [transport |-> "none", raw |-> <<>>]
NoResponse == [status |-> 0, ctype |-> "none", body |-> JNull]

\* FastAPI serialises the dict handle_mcp returns
JsonResponse(d) == [status |-> 200, ctype |-> "application/json", body |-> d]

\* an exception that leaves handle_mcp: the framework answers 500, plain text
InternalServerError ==
    [status |-> 500, ctype |-> "text/plain", body |-> S("Internal Server Error")]

PARSE_ERROR == -32700
METHOD_NOT_FOUND == -32601
INVALID_PARAMS == -32602
SERVER_ERROR == -32000

\* mcp_error(req_id, code, message)
mcp_error(req_id, code, message) ==
    Dict(<< <<"jsonrpc", S("2.0")>>,
            <<"id", req_id>>,
            <<"error", Dict(<< <<"code", JInt(code)>>,
                               <<"message", message>> >>)>> >>)

\* a result that does not echo the id
RpcResultNullId(req_id, result) ==
    Dict(<< <<"jsonrpc", S("2.0")>>, <<"id", JNull>>, <<"result", result>> >>)

\* a dict {"jsonrpc": "2.0", "id": req_id, "result": result}
RpcResult(req_id, result) ==
    Dict(<< <<"jsonrpc", S("2.0")>>, <<"id", req_id>>, <<"result", result>> >>)

\* {"content": [{"type": "text", "text": payload}]}
TextContent(payload) ==
    Dict(<< <<"content", JList(<< Dict(<< <<"type", S("text")>>,
                                          <<"text", JStr(payload)>> >>) >>)>> >>)

InitializeResult(version) ==
    Dict(<< <<"protocolVersion", S("2024-11-05")>>,
            <<"capabilities", EmptyObj>>,
            <<"serverInfo", Dict(<< <<"name", S("gcp-compute-mcp-api")>>,
                                    <<"version", S(version)>> >>)>> >>)

StringType == Dict(<< <<"type", S("string")>> >>)

\* one entry of tools/list: a tool and the arguments it requires
ToolSpec(name, description, required) ==
    Dict(<< <<"name", S(name)>>,
            <<"description", S(description)>>,
            <<"inputSchema",
              Dict(<< <<"type", S("object")>>,
                      <<"properties",
                        JObj([i \in 1..Len(required) |->
                                 << <<required[i]>>, StringType >>])>>,
                      <<"required",
                        JList([i \in 1..Len(required) |-> S(required[i])])>> >>)>> >>)

ListInstancesSpec ==
    ToolSpec("list_instances", "List GCP Compute Engine instances",
             <<"project", "zone">>)
StartInstanceSpec ==
    ToolSpec("start_instance", "Start a GCP Compute Engine instance",
             <<"project", "zone", "name">>)

\* the tools the HTTP gateway declares
HttpToolsList == Dict(<< <<"tools", JList(<<ListInstancesSpec, StartInstanceSpec>>)>> >>)
\* the tools the stdio server declares
StdioToolsList == Dict(<< <<"tools", JList(<<ListInstancesSpec>>)>> >>)

\* f"{v}" for the values that reach a message
Format(v) ==
    CASE v.t = "str" -> v.s
      [] v.t = "null" -> <<"None">>
      [] OTHER -> <<"<repr>">>

\* str(d) of the error dict of an operation: Python's repr of the dict
PyStr(d) == <<"str(">> \o Dumps(d, NoIndent) \o <<")">>

Frame0 ==
    [req_id |-> JNull, project |-> JNull, zone |-> JNull, name |-> JNull,
     op |-> JNull, op_result |-> JNull, i |-> 0, status |-> JNull,
     value |-> JNull, exc |-> ""]

Calls0 ==
    [init |-> 0, list |-> 0, start |-> 0, stop |-> 0, getOp |-> 0, getInst |-> 0]

-----------------------------------------------------------------------------
(* What the Resource Client (the Compute API) may answer *)

Instance(name, status) == Dict(<< <<"name", name>>, <<"status", S(status)>> >>)

ListResponses ==
    { EmptyObj,
      Dict(<< <<"items", JList(<< Instance(S("a"), "RUNNING"),
                                  Instance(S("b"), "TERMINATED") >>)>> >>),
      Dict(<< <<"items",
                JList(<< Dict(<< <<"name", JStr(<<"c", QUOTE, BACKSLASH, LF>>)>>,
                                 <<"status", S("STAGING")>>,
                                 <<"cpus", JInt(12)>>,
                                 <<"canIpForward", JBool(FALSE)>>,
                                 <<"labels", EmptyObj>>,
                                 <<"description", JNull>> >>) >>)>> >>) }

StartOperation == Dict(<< <<"name", S("operation-1")>> >>)

OperationError ==
    Dict(<< <<"errors", JList(<< Dict(<< <<"code", S("QUOTA_EXCEEDED")>> >>) >>)>> >>)

OperationResults ==
    { Dict(<< <<"status", S("PENDING")>> >>),
      Dict(<< <<"status", S("RUNNING")>> >>),
      Dict(<< <<"status", S("DONE")>> >>),
      Dict(<< <<"status", S("DONE")>>, <<"error", OperationError>> >>) }

InstanceResults == { Instance(S("vm1"), "RUNNING"), Instance(S("vm1"), "STAGING"), EmptyObj }

\* range(30): the instance-state polls of start_instance
MaxInstancePolls == 30

-----------------------------------------------------------------------------
(* mcp_gcloud_compute_http.py: handle_mcp as steps.  pc is "idle" (no       *)
(* request), "received" (a request arrived), "list" / "start" / "op_poll" / *)
(* "inst_poll" (about to make that Resource Client call) or "responded".    *)
(* Locals are bound once, by \E over a one-element set.                     *)

\* `return d`: the framework sends the dict as the response
Returns(d) ==
    /\ pc' = "responded"
    /\ response' = JsonResponse(d)

\* an exception leaves the handler: the framework answers 500
Raises(exc) ==
    /\ pc' = "responded"
    /\ response' = InternalServerError
    /\ frame' = [frame EXCEPT !.exc = exc]

\* on to the Resource Client call `at`, with the locals in fr
Proceeds(at, fr) ==
    /\ pc' = at
    /\ frame' = fr
    /\ UNCHANGED response

\* get_compute(): the client is built on first use and kept; clientOk says
\* whether default() and build() succeed
get_compute(clientOk) ==
    /\ compute' = IF compute = "None" /\ clientOk THEN "client" ELSE compute
    /\ calls' = [calls EXCEPT !.init = IF compute = "None" THEN @ + 1 ELSE @]

\* `if not project or not zone`
MissingListArgument(project, zone) == ~Truthy(project) \/ ~Truthy(zone)

\* `if not project or not zone or not name`
MissingStartArgument(project, zone, name) ==
    ~Truthy(project) \/ ~Truthy(zone) \/ ~Truthy(name)

\* the list_instances branch, up to compute.instances().list(...).execute()
ListInstancesBranch(req_id, args) ==
    IF ~IsObj(args) THEN Raises("AttributeError")
    ELSE \E project \in {Get(args, "project", JNull)},
            zone \in {Get(args, "zone", JNull)} :
            IF MissingListArgument(project, zone)
            THEN /\ Returns(mcp_error(req_id, INVALID_PARAMS,
                                      S("Both 'project' and 'zone' are required")))
                 /\ UNCHANGED frame
            ELSE Proceeds("list", [Frame0 EXCEPT !.req_id = req_id,
                                                 !.project = project,
                                                 !.zone = zone])

\* the start_instance branch, up to compute.instances().start(...).execute()
StartInstanceBranch(req_id, args) ==
    IF ~IsObj(args) THEN Raises("AttributeError")
    ELSE \E project \in {Get(args, "project", JNull)},
            zone \in {Get(args, "zone", JNull)},
            name \in {Get(args, "name", JNull)} :
            IF MissingStartArgument(project, zone, name)
            THEN /\ Returns(mcp_error(req_id, INVALID_PARAMS,
                                      S("project, zone and name are required")))
                 /\ UNCHANGED frame
            ELSE Proceeds("start", [Frame0 EXCEPT !.req_id = req_id,
                                                  !.project = project,
                                                  !.zone = zone,
                                                  !.name = name])

\* `if method == "tools/call"`: get_compute() comes before the tool is looked at
ToolsCallBranch(req_id, params) ==
    IF ~IsObj(params)
    THEN Raises("AttributeError") /\ UNCHANGED <<compute, calls>>
    ELSE \E tool \in {Get(params, "name", JNull)},
            args \in {Get(params, "arguments", EmptyObj)},
            clientOk \in (IF compute = "None" THEN BOOLEAN ELSE {TRUE}) :
            /\ get_compute(clientOk)
            /\ IF ~clientOk THEN Raises("DefaultCredentialsError")
               ELSE IF tool = S("list_instances")
               THEN ListInstancesBranch(req_id, args)
               ELSE IF tool = S("start_instance")
               THEN StartInstanceBranch(req_id, args)
               ELSE /\ Returns(mcp_error(req_id, METHOD_NOT_FOUND,
                                         JStr(<<"Unknown tool: ">> \o Format(tool))))
                    /\ UNCHANGED frame

\* the branches on `method`
MethodBranch(req_id, method, params) ==
    IF method = S("initialize")
    THEN /\ Returns(RpcResult(req_id, InitializeResult("0.8.2")))
         /\ UNCHANGED <<frame, compute, calls>>
    ELSE IF method = S("tools/list")
    THEN /\ Returns(RpcResult(req_id, HttpToolsList))
         /\ UNCHANGED <<frame, compute, calls>>
    ELSE IF method = S("tools/call")
    THEN ToolsCallBranch(req_id, params)
    ELSE /\ Returns(mcp_error(req_id, METHOD_NOT_FOUND,
                              JStr(<<"Method not found: ">> \o Format(method))))
         /\ UNCHANGED <<frame, compute, calls>>

\* handle_mcp from the request body to its first Resource Client call
HandleMcpBegin ==
    /\ pc = "received"
    /\ request.transport = "http"
    /\ \E parsed \in {Loads(request.raw)} :
          IF ~parsed.ok
          THEN /\ Returns(mcp_error(JNull, PARSE_ERROR, S("Invalid JSON")))
               /\ UNCHANGED <<frame, compute, calls>>
          \* body.get on a value that is no dict
          ELSE IF ~IsObj(parsed.v)
          THEN Raises("AttributeError") /\ UNCHANGED <<compute, calls>>
          ELSE \E req_id \in {Get(parsed.v, "id", JNull)},
                  method \in {Get(parsed.v, "method", JNull)},
                  params \in {Get(parsed.v, "params", EmptyObj)} :
                  MethodBranch(req_id, method, params)
    /\ UNCHANGED <<ACTION_MEMORY, appended, recent, computeStdio, request,
                   waiter, toolArgs, outcome, ledgerAtSend, nCalls>>
    /\ UNCHANGED <<backlog, invocations>>

\* the payload of list_instances
ListPayload(resp) == Dict(<< <<"instances", Get(resp, "items", EmptyList)>> >>)

\* a successful tools/call: the value goes out as one text item
ReturnsText(value) ==
    /\ frame' = [frame EXCEPT !.value = value]
    /\ \E payload \in {Dumps(value, 2)} :
          Returns(RpcResult(frame.req_id, TextContent(payload)))

\* compute.instances().list(...).execute() and the rest of the branch
ListInstancesExecute ==
    /\ pc = "list"
    /\ calls' = [calls EXCEPT !.list = @ + 1]
    /\ \/ Raises("HttpError")
       \/ \E resp \in ListResponses : ReturnsText(ListPayload(resp))
    /\ UNCHANGED <<ACTION_MEMORY, appended, recent, compute, computeStdio,
                   request, waiter, toolArgs, outcome, ledgerAtSend, nCalls>>
    /\ UNCHANGED <<backlog, invocations>>

\* compute.instances().start(...).execute()
StartInstanceExecute ==
    /\ pc = "start"
    /\ calls' = [calls EXCEPT !.start = @ + 1]
    /\ \/ Raises("HttpError")
       \/ Proceeds("op_poll", [frame EXCEPT !.op = StartOperation])
    /\ UNCHANGED <<ACTION_MEMORY, appended, recent, compute, computeStdio,
                   request, waiter, toolArgs, outcome, ledgerAtSend, nCalls>>
    /\ UNCHANGED <<backlog, invocations>>

\* a tracker that takes every operation status for DONE
OperationAlwaysDone(op_result) == TRUE

\* `if op_result["status"] == "DONE"`
OperationDone(op_result) == Item(op_result, "status") = S("DONE")

\* a tracker that never looks for the error of an operation
OperationNeverFailed(op_result) == FALSE

\* `if "error" in op_result`
OperationFailed(op_result) == HasKey(op_result, "error")

\* one turn of `while True`: zoneOperations().get(...).execute(), then the
\* return, the break or time.sleep(2)
GetOperationExecute ==
    /\ pc = "op_poll"
    /\ calls' = [calls EXCEPT !.getOp = Min(@ + 1, MaxOpPolls)]
    /\ \/ Raises("HttpError")
       \/ \E op_result \in OperationResults :
            IF OperationDone(op_result)
            THEN IF OperationFailed(op_result)
                 THEN /\ Returns(mcp_error(frame.req_id, SERVER_ERROR,
                                           JStr(PyStr(Item(op_result, "error")))))
                      /\ frame' = [frame EXCEPT !.op_result = op_result]
                 ELSE Proceeds("inst_poll", [frame EXCEPT !.op_result = op_result,
                                                          !.i = 0, !.status = JNull])
            ELSE /\ frame' = [frame EXCEPT !.op_result = op_result]
                 /\ UNCHANGED <<pc, response>>
    /\ UNCHANGED <<ACTION_MEMORY, appended, recent, compute, computeStdio,
                   request, waiter, toolArgs, outcome, ledgerAtSend, nCalls>>
    /\ UNCHANGED <<backlog, invocations>>

\* the payload of start_instance
StartPayload(name, status) ==
    Dict(<< <<"instance", name>>,
            <<"status", status>>,
            <<"note", S("start request accepted; instance may still be provisioning")>> >>)

\* a loop that does not stop at RUNNING
NeverRunning(status) == FALSE

\* `if status == "RUNNING"`
InstanceRunning(status) == status = S("RUNNING")

\* a loop that gives up one turn early
LastPollEarly(i) == i + 2 >= MaxInstancePolls

\* turn i is the last of `for i in range(30)`
LastPoll(i) == i + 1 >= MaxInstancePolls

\* one turn of `for i in range(30)`: instances().get(...).execute(), then the
\* break or time.sleep(5); after the loop, the response
GetInstanceExecute ==
    /\ pc = "inst_poll"
    /\ calls' = [calls EXCEPT !.getInst = @ + 1]
    /\ \/ Raises("HttpError")
       \/ \E instance \in InstanceResults :
            \E status \in {Get(instance, "status", JNull)} :
               IF InstanceRunning(status) \/ LastPoll(frame.i)
               THEN /\ \E payload \in {Dumps(StartPayload(frame.name, status), 2)} :
                          Returns(RpcResult(frame.req_id, TextContent(payload)))
                    /\ frame' = [frame EXCEPT !.status = status,
                                              !.value = StartPayload(frame.name, status)]
               ELSE /\ frame' = [frame EXCEPT !.status = status, !.i = @ + 1]
                    /\ UNCHANGED <<pc, response>>
    /\ UNCHANGED <<ACTION_MEMORY, appended, recent, compute, computeStdio,
                   request, waiter, toolArgs, outcome, ledgerAtSend, nCalls>>
    /\ UNCHANGED <<backlog, invocations>>

-----------------------------------------------------------------------------
(* mcp_gcloud_compute.py: the stdio server, one input line at a time *)

\* send(message): one line on stdout
Sent(message) == [status |-> 0, ctype |-> "stdout", body |-> message]

\* an exception that leaves main(): the process ends with a traceback
Traceback == [status |-> 0, ctype |-> "traceback", body |-> JNull]

\* send(message): one line on stdout
send(message) == response' = Sent(message)

\* send_error(req_id, code, message)
send_error(req_id, code, message) == send(mcp_error(req_id, code, message))

\* a server that builds its client for every request
ClientBuilt == calls' = [Calls0 EXCEPT !.init = 1] /\ computeStdio' = "client"

\* neither get_compute() nor the list call is reached
NoClientCall == calls' = Calls0 /\ UNCHANGED computeStdio

\* an exception leaves main()
Crashes == response' = Traceback /\ NoClientCall

\* handle_initialize(req_id)
handle_initialize(req_id) ==
    send(RpcResult(req_id, InitializeResult("0.6.0"))) /\ NoClientCall

\* handle_tools_list(req_id)
handle_tools_list(req_id) == send(RpcResult(req_id, StdioToolsList)) /\ NoClientCall

\* the try block of handle_tools_call, with its `except Exception as exc`
ListInstancesTry(req_id) ==
    \E clientOk \in (IF computeStdio = "None" THEN BOOLEAN ELSE {TRUE}) :
       /\ computeStdio' = IF clientOk THEN "client" ELSE computeStdio
       /\ IF ~clientOk
          THEN /\ send_error(req_id, SERVER_ERROR, S("DefaultCredentialsError"))
               /\ calls' = [Calls0 EXCEPT !.init = 1]
          ELSE /\ calls' = [Calls0 EXCEPT
                               !.init = IF computeStdio = "None" THEN 1 ELSE 0,
                               !.list = 1]
               /\ \/ send_error(req_id, SERVER_ERROR, S("HttpError"))
                  \/ \E resp \in ListResponses :
                        \E payload \in {Dumps(ListPayload(resp), 2)} :
                           send(RpcResult(req_id, TextContent(payload)))

\* handle_tools_call(req_id, params)
handle_tools_call(req_id, params) ==
    IF ~IsObj(params) THEN Crashes
    ELSE \E tool_name \in {Get(params, "name", JNull)},
            args \in {Get(params, "arguments", EmptyObj)} :
            IF tool_name # S("list_instances")
            THEN /\ send_error(req_id, METHOD_NOT_FOUND,
                               JStr(<<"Unknown tool: ">> \o Format(tool_name)))
                 /\ NoClientCall
            ELSE IF ~IsObj(args) THEN Crashes
            ELSE IF MissingListArgument(Get(args, "project", JNull),
                                        Get(args, "zone", JNull))
            THEN /\ send_error(req_id, INVALID_PARAMS,
                               S("Both 'project' and 'zone' are required"))
                 /\ NoClientCall
            ELSE ListInstancesTry(req_id)

\* one turn of `for line in sys.stdin` in main()
StdioLine(line) ==
    \E parsed \in {Loads(line)} :
       \* except json.JSONDecodeError: continue
       IF ~parsed.ok THEN response' = NoResponse /\ NoClientCall
       ELSE IF ~IsObj(parsed.v) THEN Crashes
       ELSE \E req_id \in {Get(parsed.v, "id", JNull)},
               method \in {Get(parsed.v, "method", JNull)} :
               IF method = S("initialize") THEN handle_initialize(req_id)
               ELSE IF method = S("tools/list") THEN handle_tools_list(req_id)
               ELSE IF method = S("tools/call")
               THEN handle_tools_call(req_id, Get(parsed.v, "params", EmptyObj))
               ELSE /\ send_error(req_id, METHOD_NOT_FOUND,
                                  JStr(<<"Method not found: ">> \o Format(method)))
                    /\ NoClientCall

-----------------------------------------------------------------------------
(* The requests a client of either server may send *)

Absent == [t |-> "absent"]

\* a dict literal that leaves out the members whose value is Absent
DictOf(pairs) == Dict(SelectSeq(pairs, LAMBDA p : p[2] # Absent))

Envelope(id, method, params) ==
    DictOf(<< <<"jsonrpc", S("2.0")>>, <<"id", id>>, <<"method", method>>,
              <<"params", params>> >>)

RequestIds == {Absent, JInt(7), S("r1")}

ToolNames ==
    {Absent, S("list_instances"), S("start_instance"), S("stop_instance"),
     S("get_recent_actions"), S("reboot")}

Arguments(project, zone, name) ==
    DictOf(<< <<"project", project>>, <<"zone", zone>>, <<"name", name>> >>)

\* arguments: absent, no dict, complete, and one argument missing or empty
ArgumentSets ==
    {Absent, EmptyList, EmptyObj,
     Arguments(S("p1"), S("z1"), S("vm1")),
     Arguments(S("p1"), S("z1"), Absent),
     Arguments(S("p1"), S("z1"), EmptyStr),
     Arguments(Absent, S("z1"), S("vm1")),
     Arguments(EmptyStr, S("z1"), S("vm1")),
     Arguments(S("p1"), Absent, S("vm1")),
     Arguments(S("p1"), EmptyStr, S("vm1"))}

CallParams ==
    {Absent, EmptyList}
    \cup {DictOf(<< <<"name", tool>>, <<"arguments", args>> >>) :
             tool \in ToolNames, args \in ArgumentSets}

RequestObjects ==
    {Envelope(id, method, Absent) :
        id \in RequestIds,
        method \in {Absent, S("initialize"), S("tools/list"), S("ping")}}
    \cup {Envelope(id, S("tools/call"), params) :
             id \in RequestIds, params \in CallParams}

\* bodies that are no JSON, and JSON that is no object
MalformedBodies == {<<>>, <<"{">>, <<"{", QUOTE, "id", QUOTE, "}">>}
NonObjectBodies == {<<"[", "]">>, <<"7">>, <<"null">>}

RawBodies ==
    MalformedBodies \cup NonObjectBodies
    \cup {Dumps(obj, NoIndent) : obj \in RequestObjects}


-----------------------------------------------------------------------------
(* A client that posts a body to /mcp, or writes a line to the stdio server *)

NoOutcome == [tool |-> "none", how |-> "none", exc |-> "", code |-> 0]

\* a request leaves for the HTTP gateway
Post(raw, who) ==
    /\ pc = "idle"
    /\ request' = [transport |-> "http", raw |-> raw]
    /\ response' = NoResponse
    /\ pc' = "received"
    /\ frame' = Frame0
    /\ calls' = Calls0
    /\ waiter' = who
    /\ ledgerAtSend' = Len(appended)

RawPost ==
    /\ \E raw \in RawBodies : Post(raw, "raw")
    /\ UNCHANGED <<ACTION_MEMORY, appended, recent, compute, computeStdio,
                   toolArgs, outcome, nCalls>>
    /\ UNCHANGED <<backlog, invocations>>

\* the client has read the response; the exchange is over
Close ==
    /\ pc' = "idle"
    /\ request' = NoRequest
    /\ response' = NoResponse
    /\ frame' = Frame0
    /\ calls' = Calls0
    /\ waiter' = "none"

RawReceive ==
    /\ pc = "responded"
    /\ waiter = "raw"
    /\ Close
    /\ UNCHANGED <<ACTION_MEMORY, appended, recent, compute, computeStdio,
                   toolArgs, outcome, ledgerAtSend, nCalls>>
    /\ UNCHANGED <<backlog, invocations>>

\* the stdio server reads one line and handles it to the end
StdioMain ==
    /\ pc = "idle"
    /\ \E line \in RawBodies :
          /\ request' = [transport |-> "stdio", raw |-> line]
          /\ StdioLine(line)
    /\ pc' = "responded"
    /\ frame' = Frame0
    /\ waiter' = "raw"
    /\ ledgerAtSend' = Len(appended)
    /\ UNCHANGED <<ACTION_MEMORY, appended, recent, compute, toolArgs, outcome,
                   nCalls>>
    /\ UNCHANGED <<backlog, invocations>>

-----------------------------------------------------------------------------
(* app.py: the tool functions of the main agent *)

\* parse_mcp_result(data): [ok, v]; ok is FALSE where it raises
parse_mcp_result(data) ==
    \* data.get on a value that is no dict
    IF ~IsObj(data) THEN [ok |-> FALSE, v |-> JNull] ELSE
    LET result == Get(data, "result", EmptyObj) IN
    IF IsObj(result) /\ HasKey(result, "content")
    THEN LET content == Item(result, "content") IN
         IF content.t = "list" /\ content.items # <<>>
            /\ IsObj(content.items[1]) /\ HasKey(content.items[1], "text")
            /\ Item(content.items[1], "text").t = "str"
         THEN Loads(Item(content.items[1], "text").s)
         ELSE [ok |-> FALSE, v |-> JNull]
    ELSE [ok |-> TRUE, v |-> result]

\* the body of a tools/call request as the tool functions build it
ToolRequest(id, tool, arguments) ==
    Dict(<< <<"jsonrpc", S("2.0")>>,
            <<"id", S(id)>>,
            <<"method", S("tools/call")>>,
            <<"params", Dict(<< <<"name", S(tool)>>,
                                <<"arguments", arguments>> >>)>> >>)

\* the arguments the agent may pass: complete, or one of them empty
AgentArguments ==
    { [project |-> S("p1"), zone |-> S("z1"), name |-> S("vm1")],
      [project |-> EmptyStr, zone |-> S("z1"), name |-> S("vm1")],
      [project |-> S("p1"), zone |-> EmptyStr, name |-> S("vm1")],
      [project |-> S("p1"), zone |-> S("z1"), name |-> EmptyStr] }

ProjectZone(a) == Dict(<< <<"project", a.project>>, <<"zone", a.zone>> >>)
ProjectZoneName(a) ==
    Dict(<< <<"project", a.project>>, <<"zone", a.zone>>, <<"name", a.name>> >>)

\* a tool function posts its request and awaits the response
ToolPost(tool, id, mcpTool, a, arguments) ==
    /\ nCalls < MaxCalls
    /\ Post(Dumps(ToolRequest(id, mcpTool, arguments), NoIndent), tool)
    /\ toolArgs' = a
    /\ outcome' = NoOutcome
    /\ nCalls' = nCalls + 1
    /\ UNCHANGED <<ACTION_MEMORY, appended, recent, compute, computeStdio>>
    /\ UNCHANGED <<backlog, invocations>>

gcp_list_instances_call ==
    \E a \in AgentArguments :
        ToolPost("gcp_list_instances", "gcp-list", "list_instances",
                 [a EXCEPT !.name = JNull], ProjectZone(a))

gcp_start_instance_call ==
    \E a \in AgentArguments :
        ToolPost("gcp_start_instance", "gcp-start", "start_instance",
                 a, ProjectZoneName(a))

gcp_stop_instance_call ==
    \E a \in AgentArguments :
        ToolPost("gcp_stop_instance", "gcp-stop", "stop_instance",
                 a, ProjectZoneName(a))

\* the response body as it crosses the wire and r.json() decodes it
WireJson(body) ==
    LET decoded == {Loads(wire) : wire \in {Dumps(body, NoIndent)}}
    IN (CHOOSE d \in decoded : TRUE).v

\* the error code of a decoded response, 0 when it carries none
ErrorCode(data) ==
    IF IsObj(data) /\ HasKey(data, "error") /\ IsObj(Item(data, "error"))
       /\ HasKey(Item(data, "error"), "code")
    THEN Item(Item(data, "error"), "code").n
    ELSE 0

\* the tool function raises exc: nothing is recorded
ToolRaises(exc, code) ==
    /\ outcome' = [tool |-> waiter, how |-> "raised", exc |-> exc, code |-> code]
    /\ UNCHANGED <<ACTION_MEMORY, appended>>

\* the tool function records the parsed result and returns it
ToolRecords(kind, payload, parsed, code) ==
    /\ RecordGcpAction(kind, toolArgs.project, toolArgs.zone, toolArgs.name,
                       payload, parsed)
    /\ outcome' = [tool |-> waiter, how |-> "returned", exc |-> "", code |-> code]

\* after the post: raise_for_status, r.json(), the check for "error" that
\* only gcp_list_instances makes, parse_mcp_result and the record
ToolAfterPost(kind, payload, checksError) ==
    IF response.status >= 400 THEN ToolRaises("HTTPStatusError", 0)
    ELSE \E data \in {WireJson(response.body)} :
            IF checksError /\ HasKey(data, "error")
            THEN ToolRaises("RuntimeError", ErrorCode(data))
            ELSE \E parsed \in {parse_mcp_result(data)} :
                    IF ~parsed.ok THEN ToolRaises("JSONDecodeError", ErrorCode(data))
                    ELSE ToolRecords(kind, payload, parsed.v, ErrorCode(data))

ToolReceive(tool, kind, payload, checksError) ==
    /\ pc = "responded"
    /\ waiter = tool
    /\ ToolAfterPost(kind, payload, checksError)
    /\ Close
    /\ UNCHANGED <<recent, compute, computeStdio, toolArgs, ledgerAtSend, nCalls>>
    /\ UNCHANGED <<backlog, invocations>>

gcp_list_instances_return ==
    ToolReceive("gcp_list_instances", "list_instances", ProjectZone(toolArgs), TRUE)

gcp_start_instance_return ==
    ToolReceive("gcp_start_instance", "start_instance", ProjectZoneName(toolArgs), FALSE)

gcp_stop_instance_return ==
    ToolReceive("gcp_stop_instance", "stop_instance", ProjectZoneName(toolArgs), FALSE)

\* httpx.AsyncClient(timeout=30.0): the wait ends with ReadTimeout while the
\* handler is still at a Resource Client call or asleep between polls; the
\* handler itself runs on
ToolTimeout ==
    /\ pc \in {"list", "start", "op_poll", "inst_poll"}
    /\ waiter \in {"gcp_list_instances", "gcp_start_instance", "gcp_stop_instance"}
    /\ ToolRaises("ReadTimeout", 0)
    /\ waiter' = "none"
    /\ UNCHANGED <<recent, compute, computeStdio, request, response, pc, frame,
                   calls, toolArgs, ledgerAtSend, nCalls>>
    /\ UNCHANGED <<backlog, invocations>>

\* a response nobody waits for any more is dropped
Discard ==
    /\ pc = "responded"
    /\ waiter = "none"
    /\ Close
    /\ UNCHANGED <<ACTION_MEMORY, appended, recent, compute, computeStdio,
                   toolArgs, outcome, ledgerAtSend, nCalls>>
    /\ UNCHANGED <<backlog, invocations>>

-----------------------------------------------------------------------------
(* The gateway with the agent's tool functions and the ledger *)

Init ==
    /\ ACTION_MEMORY = <<>>
    /\ appended = <<>>
    /\ recent = NoCall
    /\ compute = "None"
    /\ computeStdio = "None"
    /\ request = NoRequest
    /\ response = NoResponse
    /\ pc = "idle"
    /\ frame = Frame0
    /\ calls = Calls0
    /\ waiter = "none"
    /\ toolArgs = [project |-> JNull, zone |-> JNull, name |-> JNull]
    /\ outcome = NoOutcome
    /\ ledgerAtSend = 0
    /\ nCalls = 0
    /\ backlog = <<>>
    /\ invocations = <<>>

\* handle_mcp, whoever sent the request
HandleMcp ==
    \/ HandleMcpBegin
    \/ ListInstancesExecute
    \/ StartInstanceExecute
    \/ GetOperationExecute
    \/ GetInstanceExecute

\* the agent's tool functions against the gateway
Next ==
    \/ HandleMcp
    \/ gcp_list_instances_call
    \/ gcp_list_instances_return
    \/ gcp_start_instance_call
    \/ gcp_start_instance_return
    \/ gcp_stop_instance_call
    \/ gcp_stop_instance_return
    \/ ToolTimeout
    \/ Discard

Spec == Init /\ [][Next]_vars

-----------------------------------------------------------------------------
(* The two servers against any client: every body of RawBodies may be     *)
(* posted to /mcp or written as a line to the stdio server                *)

GatewayNext == RawPost \/ StdioMain \/ RawReceive \/ HandleMcp

GatewaySpec == Init /\ [][GatewayNext]_vars

-----------------------------------------------------------------------------
(* The ledger alone: any sequence of appends and reads *)

LedgerKinds == {"list_instances", "start_instance", "stop_instance"}

\* _record_gcp_action called with any kind
LedgerAppend ==
    /\ Len(appended) < Capacity + ExtraAppends
    /\ \E kind \in LedgerKinds :
          RecordGcpAction(kind, S("p1"), S("z1"),
                          IF kind = "list_instances" THEN JNull ELSE S("vm1"),
                          EmptyObj, EmptyObj)
    /\ UNCHANGED <<recent, compute, computeStdio, request, response, pc, frame,
                   calls, waiter, toolArgs, outcome, ledgerAtSend, nCalls>>
    /\ UNCHANGED <<backlog, invocations>>

Limits == (-1)..(Capacity + 1)

\* the reasoning agent calls get_recent_gcp_actions(limit)
LedgerRecent ==
    /\ \E limit \in Limits :
          recent' = [called |-> TRUE, limit |-> limit, ledger |-> ACTION_MEMORY,
                     actions |-> GetRecentGcpActions(limit)]
    /\ UNCHANGED <<ACTION_MEMORY, appended, compute, computeStdio, request,
                   response, pc, frame, calls, waiter, toolArgs, outcome,
                   ledgerAtSend, nCalls>>
    /\ UNCHANGED <<backlog, invocations>>

LedgerNext == LedgerAppend \/ LedgerRecent

LedgerSpec == Init /\ [][LedgerNext]_vars

-----------------------------------------------------------------------------
(* The action ledger *)

\* the last n items of seq, oldest first
LastN(seq, n) == SubSeq(seq, Len(seq) - n + 1, Len(seq))

\* C1: after any N appends the ledger holds min(N, Capacity) records: it
\* never exceeds Capacity, and it is the most recent min(N, Capacity)
\* records appended, in insertion order (on overflow the oldest is evicted)
C1_LedgerHoldsMostRecent ==
    /\ Len(ACTION_MEMORY) = Min(Len(appended), Capacity)
    /\ Len(ACTION_MEMORY) <= Capacity
    /\ ACTION_MEMORY = LastN(appended, Min(Len(appended), Capacity))

\* more records were appended than the ledger holds, and the oldest are gone
C1_Overflowed ==
    /\ Len(appended) = Capacity + ExtraAppends
    /\ Len(ACTION_MEMORY) = Capacity
    /\ ACTION_MEMORY[1] = appended[ExtraAppends + 1]

\* C2: for every ledger content and every limit >= 0, limit = 0 and limit
\* beyond the ledger length included, get_recent_gcp_actions(limit) returns
\* exactly the last min(limit, length) records, oldest first
C2_RecentReturnsLastMin ==
    (recent.called /\ recent.limit >= 0) =>
        recent.actions = LastN(recent.ledger, Min(recent.limit, Len(recent.ledger)))

-----------------------------------------------------------------------------
(* The request in hand, as the server decodes it *)

Received == Loads(request.raw)

\* the body is JSON and an object
ReceivedObject == request # NoRequest /\ Received.ok /\ IsObj(Received.v)

ReceivedId == Get(Received.v, "id", JNull)
ReceivedMethod == Get(Received.v, "method", JNull)
ReceivedParams == Get(Received.v, "params", EmptyObj)

\* the request has been answered, or the handler has ended without an answer
Answered == pc = "responded"

\* the response is a JSON-RPC message, over HTTP or on stdout
RpcMessage == response.ctype \in {"application/json", "stdout"} /\ IsObj(response.body)

\* the response is the JSON-RPC error `code` for request id `id`
IsError(id, code) ==
    /\ RpcMessage
    /\ HasKey(response.body, "error")
    /\ Item(response.body, "id") = id
    /\ Item(Item(response.body, "error"), "code") = JInt(code)

-----------------------------------------------------------------------------
(* tools/call: the text content and its round trip *)

\* a tools/call that succeeded: the handler produced frame.value
SuccessfulToolsCall == Answered /\ frame.value # JNull

\* the one item of result.content, JNull when content is not a one-item list
OnlyContentItem ==
    LET result == Get(response.body, "result", JNull)
        content == IF IsObj(result) THEN Get(result, "content", JNull) ELSE JNull
    IN IF content.t = "list" /\ Len(content.items) = 1 THEN content.items[1]
       ELSE JNull

\* C3: every successful tools/call response has result.content equal to a
\* list of exactly one item {type: "text", text: s} with s a string, and
\* decoding s as JSON, as parse_mcp_result does with the response the client
\* reads, yields exactly the value the handler produced
C3_TextContentRoundTrip ==
    SuccessfulToolsCall =>
        \E item \in {OnlyContentItem} :
            /\ IsObj(item)
            /\ HasKey(item, "text")
            /\ Item(item, "text").t = "str"
            /\ item = Dict(<< <<"type", S("text")>>, <<"text", Item(item, "text")>> >>)
            /\ Loads(Item(item, "text").s) = [ok |-> TRUE, v |-> frame.value]
            /\ parse_mcp_result(WireJson(response.body))
                  = [ok |-> TRUE, v |-> frame.value]

\* a list_instances result whose instance name holds a quote, a backslash and
\* a line feed has been sent
C3_QuotedNameSent ==
    /\ SuccessfulToolsCall
    /\ IsObj(frame.value)
    /\ HasKey(frame.value, "instances")
    /\ \E k \in 1..Len(Item(frame.value, "instances").items) :
          Item(Item(frame.value, "instances").items[k], "name")
             = JStr(<<"c", QUOTE, BACKSLASH, LF>>)

-----------------------------------------------------------------------------
(* tools/call: the errors, seen from the agent's tool functions *)

\* the tool function has finished an invocation (outcome), which began when
\* the ledger had had ledgerAtSend appends
NoRecordAppended == Len(appended) = ledgerAtSend

\* C4: a tools/call whose tool name is not registered (stop_instance, which
\* gcp_stop_instance calls) returns an error response with code -32601, and
\* the invocation appends no record to the action ledger
C4_UnknownToolNoRecord ==
    outcome.tool = "gcp_stop_instance" =>
        /\ outcome.code = METHOD_NOT_FOUND
        /\ NoRecordAppended

\* a required argument of the tool is missing or empty
RequiredArgumentMissing(tool) ==
    IF tool = "gcp_list_instances"
    THEN ~Truthy(toolArgs.project) \/ ~Truthy(toolArgs.zone)
    ELSE ~Truthy(toolArgs.project) \/ ~Truthy(toolArgs.zone) \/ ~Truthy(toolArgs.name)

RegisteredToolFunctions == {"gcp_list_instances", "gcp_start_instance"}

\* C5: a tools/call on a registered tool with a missing or empty required
\* argument returns an error response with code -32602, submits no mutation
\* to the Resource Client, and appends no record to the action ledger
C5_MissingArgumentNoRecord ==
    /\ (Answered /\ waiter \in RegisteredToolFunctions
        /\ RequiredArgumentMissing(waiter)) =>
           /\ IsError(S("gcp-list"), INVALID_PARAMS)
                 \/ IsError(S("gcp-start"), INVALID_PARAMS)
           /\ calls.start = 0
    /\ (outcome.tool \in RegisteredToolFunctions
        /\ RequiredArgumentMissing(outcome.tool)) =>
           /\ outcome.code = INVALID_PARAMS
           /\ NoRecordAppended

-----------------------------------------------------------------------------
(* The gateway's responses *)

ResourceClientExceptions == {"DefaultCredentialsError", "HttpError"}

\* C6: if a Resource Client interaction made while serving a tools/call
\* raises (client initialisation, list, start submit, operation poll or
\* instance poll), the gateway returns a JSON-RPC error response carrying
\* the request id, code -32000 and the exception's message
C6_ClientExceptionIsServerError ==
    (Answered /\ frame.exc \in ResourceClientExceptions) =>
        /\ IsError(ReceivedId, SERVER_ERROR)
        /\ Item(Item(response.body, "error"), "message") = S(frame.exc)

\* C7: a request body that is not valid JSON, or valid JSON that is no
\* object, produces an error response with code -32700 and a null id, and no
\* handler runs
C7_UnparseableIsParseError ==
    (Answered /\ ~ReceivedObject) =>
        /\ IsError(JNull, PARSE_ERROR)
        /\ calls = Calls0

\* a response went out: a JSON-RPC message or anything else on the wire
ResponseSent == Answered /\ response.ctype \in {"application/json", "stdout", "text/plain"}

\* C8: every response the gateway produces, on every path, contains exactly
\* one of the members result and error, never both and never neither
C8_ExactlyOneOfResultAndError ==
    ResponseSent =>
        /\ IsObj(response.body)
        /\ HasKey(response.body, "result") # HasKey(response.body, "error")

InitializeReceived == ReceivedObject /\ ReceivedMethod = S("initialize")

\* C9: for every request id, an initialize request returns a response whose
\* id equals the request id and which has a result (protocol version and
\* server identity) and no error, whatever the state of the Resource Client
\* or the ledger
C9_InitializeEchoesId ==
    (Answered /\ InitializeReceived) =>
        /\ RpcMessage
        /\ Item(response.body, "id") = ReceivedId
        /\ HasKey(response.body, "result")
        /\ ~HasKey(response.body, "error")
        /\ HasKey(Item(response.body, "result"), "protocolVersion")
        /\ HasKey(Item(response.body, "result"), "serverInfo")

\* initialize with an id has been answered by the HTTP gateway after its
\* Resource Client was initialised
C9_InitializeAnswered ==
    /\ Answered
    /\ InitializeReceived
    /\ request.transport = "http"
    /\ ReceivedId = JInt(7)
    /\ compute = "client"
    /\ Item(response.body, "id") = JInt(7)

-----------------------------------------------------------------------------
(* start_instance: the operation that ends in an error *)

\* the last operation poll saw the operation DONE with an error
OperationEndedInError ==
    /\ IsObj(frame.op_result)
    /\ Item(frame.op_result, "status") = S("DONE")
    /\ HasKey(frame.op_result, "error")

\* C10: in a start_instance invocation, if the operation is observed DONE
\* with an operation-level error, the tracker aborts at once: it returns an
\* error response carrying that error and makes no instance-state poll
C10_AbortsOnOperationError ==
    OperationEndedInError =>
        /\ Answered
        /\ IsError(frame.req_id, SERVER_ERROR)
        /\ frame.req_id = ReceivedId
        /\ Item(Item(response.body, "error"), "message")
              = JStr(PyStr(Item(frame.op_result, "error")))
        /\ calls.getInst = 0

\* the operation was polled more than once before it ended in an error
C10_ErrorAfterPolls ==
    /\ OperationEndedInError
    /\ Answered
    /\ calls.getOp >= 2
    /\ calls.getInst = 0

-----------------------------------------------------------------------------
(* start_instance: the instance-state polls *)

\* the response is a JSON-RPC result and no error
IsResult ==
    /\ RpcMessage
    /\ HasKey(response.body, "result")
    /\ ~HasKey(response.body, "error")

\* what the client decodes from the text content of the response
DecodedPayload ==
    IF RpcMessage THEN parse_mcp_result(WireJson(response.body))
    ELSE [ok |-> FALSE, v |-> JNull]

\* the status the response reports, JNull when it reports none
ReportedStatus ==
    LET decoded == {DecodedPayload} IN
    IF \E d \in decoded : d.ok /\ IsObj(d.v) /\ HasKey(d.v, "status")
    THEN Item((CHOOSE d \in decoded : TRUE).v, "status")
    ELSE JNull

\* start_instance has returned after its instance polls, without an exception
StartReturned == Answered /\ frame.exc = "" /\ calls.getInst > 0

ProvisionalNote == S("start request accepted; instance may still be provisioning")

\* C11: in a start_instance invocation where the instance is never observed
\* RUNNING within the poll budget, exactly 30 instance-state polls are made
\* and the call returns a result, no error, whose payload status is the
\* last-observed status, differs from RUNNING, and carries the note
C11_BudgetExhaustedIsSuccess ==
    (StartReturned /\ frame.status # S("RUNNING")) =>
        /\ calls.getInst = MaxInstancePolls
        /\ IsResult
        /\ Item(response.body, "id") = ReceivedId
        /\ \E d \in {DecodedPayload} :
              /\ d.ok
              /\ d.v = StartPayload(frame.name, frame.status)
              /\ Item(d.v, "status") # S("RUNNING")
              /\ Item(d.v, "note") = ProvisionalNote

\* thirty polls saw the instance STAGING and the call has returned
C11_ThirtyPollsStaging ==
    /\ StartReturned
    /\ calls.getInst = MaxInstancePolls
    /\ frame.status = S("STAGING")
    /\ IsResult

\* C12: in a start_instance invocation where the operation reaches DONE
\* without error and the first instance-state poll observes RUNNING, the
\* invocation ends after exactly one getInstance call and returns status
\* RUNNING
C12_FirstPollRunningReturns ==
    (calls.getInst = 1 /\ frame.exc = "" /\ frame.status = S("RUNNING")) =>
        /\ Answered
        /\ IsResult
        /\ Item(response.body, "id") = ReceivedId
        /\ ReportedStatus = S("RUNNING")

\* the first instance poll saw RUNNING and the call has returned
C12_ReturnedAfterOnePoll ==
    /\ StartReturned
    /\ calls.getInst = 1
    /\ frame.status = S("RUNNING")
    /\ ReportedStatus = S("RUNNING")

-----------------------------------------------------------------------------
(* start_instance: does the handler return? *)

\* a handler that has reached its Resource Client calls keeps running: every
\* call returns or raises, and the sleeps between polls end
FairGatewaySpec ==
    /\ GatewaySpec
    /\ WF_vars(StartInstanceExecute)
    /\ WF_vars(GetOperationExecute)
    /\ WF_vars(GetInstanceExecute)

\* C13: every start_instance invocation eventually returns a response after
\* a bounded number of Resource Client queries, for every sequence of
\* statuses the Resource Client reports, an operation that stays PENDING or
\* RUNNING included
C13_StartEventuallyReturns == (pc = "start") ~> (pc = "responded")

-----------------------------------------------------------------------------
(* The gateway's event loop.  uvicorn.run serves the app with one process   *)
(* and one event loop.  handle_mcp is `async def`, and after `await         *)
(* request.body()` it never awaits: compute...execute() and time.sleep are  *)
(* blocking calls made on the loop's thread.  A request that arrives        *)
(* meanwhile waits in the backlog; the loop takes it up when no handler is  *)
(* running, which is why one frame is all the gateway ever needs.           *)

\* what other clients send in the meantime
ConcurrentBodies ==
    {Dumps(Envelope(JInt(8), S("initialize"), Absent), NoIndent),
     Dumps(Envelope(JInt(9), S("tools/list"), Absent), NoIndent),
     Dumps(Envelope(JInt(10), S("tools/call"),
                    DictOf(<< <<"name", S("list_instances")>>,
                              <<"arguments", Arguments(S("p1"), S("z1"),
                                                       Absent)>> >>)),
           NoIndent)}
    \cup {Dumps(Envelope(S(name), S("tools/call"),
                         DictOf(<< <<"name", S("start_instance")>>,
                                   <<"arguments", Arguments(S("p1"), S("z1"),
                                                            S(name))>> >>)),
                NoIndent) : name \in {"vm1", "vm2"}}

\* a client sends a request to /mcp
Arrive ==
    /\ Len(backlog) < MaxBacklog
    /\ \E raw \in ConcurrentBodies : backlog' = Append(backlog, raw)
    /\ UNCHANGED <<ACTION_MEMORY, appended, recent, compute, computeStdio,
                   request, response, pc, frame, calls, waiter, toolArgs,
                   outcome, ledgerAtSend, nCalls, invocations>>

\* the handler is between `await request.body()` and its return: the loop's
\* thread is inside a Resource Client call or inside time.sleep
LoopBlocked == pc \in {"list", "start", "op_poll", "inst_poll"}

\* the event loop takes up the next request
Accept ==
    /\ ~LoopBlocked
    /\ pc = "idle"
    /\ backlog # <<>>
    /\ Post(Head(backlog), "raw")
    /\ backlog' = Tail(backlog)
    /\ UNCHANGED <<ACTION_MEMORY, appended, recent, compute, computeStdio,
                   toolArgs, outcome, nCalls, invocations>>

LoopNext == Arrive \/ Accept \/ HandleMcp \/ RawReceive

LoopSpec == Init /\ [][LoopNext]_vars

\* a start_instance invocation is waiting between polls
BetweenPolls == pc \in {"op_poll", "inst_poll"}

\* C14: while one start_instance invocation is waiting between polls, the
\* gateway can still accept and complete an unrelated concurrent request
\* (initialize, tools/list, start_instance on another instance) before the
\* polling invocation returns
C14_ServesOthersBetweenPolls ==
    (BetweenPolls /\ backlog # <<>>) => ENABLED Accept

-----------------------------------------------------------------------------
(* start_instance: the ledger after the mutation was submitted *)

\* gcp_start_instance ends in this step, by return or by exception, after
\* instances().start(...).execute() has returned the operation to the gateway
SubmittedStartEnds ==
    /\ outcome' # outcome
    /\ outcome'.tool = "gcp_start_instance"
    /\ frame.op # JNull

\* C15: for every start_instance invocation in which the start mutation was
\* submitted to the Resource Client, the action ledger gains a record of the
\* attempt whatever the final reported outcome: success, provider operation
\* error, an exception during polling, or the caller's wait timing out
C15_SubmittedStartIsRecorded ==
    [][SubmittedStartEnds => Len(appended') = ledgerAtSend + 1]_vars

-----------------------------------------------------------------------------
(* The tool registry *)

\* the tool a tools/call request names, JNull when it is no such request
ReceivedTool ==
    IF ReceivedObject /\ ReceivedMethod = S("tools/call") /\ IsObj(ReceivedParams)
    THEN Get(ReceivedParams, "name", JNull)
    ELSE JNull

\* the names tools/list has enumerated in the response
ListedTools ==
    LET result == Item(response.body, "result")
        tools == Item(result, "tools").items
    IN {Item(tools[k], "name") : k \in 1..Len(tools)}

SpecifiedTools ==
    {S("list_instances"), S("start_instance"), S("stop_instance"),
     S("get_recent_actions")}

\* C16: tools/list enumerates precisely the tool set {list_instances,
\* start_instance, stop_instance, get_recent_actions}, and each of those
\* four names is dispatched by tools/call rather than rejected as an unknown
\* tool
C16_RegistryIsTheFourTools ==
    /\ (Answered /\ ReceivedObject /\ ReceivedMethod = S("tools/list")) =>
          IsResult /\ ListedTools = SpecifiedTools
    /\ (Answered /\ ReceivedTool \in SpecifiedTools) =>
          ~(RpcMessage /\ HasKey(response.body, "error")
            /\ Item(Item(response.body, "error"), "code") = JInt(METHOD_NOT_FOUND))

-----------------------------------------------------------------------------
(* stop_instance.  The gateway never asks for the state of an instance      *)
(* before a mutation, so what follows holds for an instance in any state,   *)
(* TERMINATED included; calls.stop counts instances().stop(...) calls, of   *)
(* which the gateway's code has none.                                       *)

\* C17: a stop_instance call on an instance that is already TERMINATED still
\* issues the provider stop call exactly once (no short-circuit on the
\* current status) and appends exactly one ledger record of kind STOP
C17_StopIsPassedThrough ==
    /\ (Answered /\ waiter = "gcp_stop_instance") => calls.stop = 1
    /\ outcome.tool = "gcp_stop_instance" =>
          /\ Len(appended) = ledgerAtSend + 1
          /\ appended[Len(appended)].kind = "stop_instance"

-----------------------------------------------------------------------------
(* tools/call: the protocol errors *)

\* the request is a tools/call whose params are a dict
ToolsCallReceived ==
    ReceivedObject /\ ReceivedMethod = S("tools/call") /\ IsObj(ReceivedParams)

\* the tools the server that got the request has a branch for
DispatchedTools ==
    IF request.transport = "http" THEN {S("list_instances"), S("start_instance")}
    ELSE {S("list_instances")}

\* the protocol error the request in hand calls for, 0 when it calls for none
ProtocolErrorCode ==
    IF ~ToolsCallReceived THEN 0
    ELSE LET tool == Get(ReceivedParams, "name", JNull)
             args == Get(ReceivedParams, "arguments", EmptyObj)
         IN IF tool \notin DispatchedTools THEN METHOD_NOT_FOUND
            ELSE IF ~IsObj(args) THEN 0
            ELSE IF tool = S("list_instances")
                    /\ MissingListArgument(Get(args, "project", JNull),
                                           Get(args, "zone", JNull))
            THEN INVALID_PARAMS
            ELSE IF tool = S("start_instance")
                    /\ MissingStartArgument(Get(args, "project", JNull),
                                            Get(args, "zone", JNull),
                                            Get(args, "name", JNull))
            THEN INVALID_PARAMS
            ELSE 0

\* C18: a tools/call rejected as a protocol error (unknown tool, or missing
\* or empty required argument) is rejected before any handler work: no
\* Resource Client initialisation or call happens for it, so its error code
\* is the same whether or not the Resource Client is available
C18_ProtocolErrorBeforeClient ==
    (Answered /\ ProtocolErrorCode # 0) =>
        /\ calls = Calls0
        /\ IsError(ReceivedId, ProtocolErrorCode)

-----------------------------------------------------------------------------
(* initialize and tools/list *)

\* the method of a request body, JNull when the body is no JSON object
MethodOf(raw) ==
    LET parsed == {Loads(raw)} IN
    IF \E b \in parsed : b.ok /\ IsObj(b.v)
    THEN Get((CHOOSE b \in parsed : TRUE).v, "method", JNull)
    ELSE JNull

\* a server finishes serving the request req in this step
Serves(req) ==
    /\ pc # "responded"
    /\ pc' = "responded"
    /\ req # NoRequest

\* C19: initialize and tools/list have no side effects: serving either
\* appends nothing to the ledger and performs no Resource Client
\* initialisation or call, so the gateway's state after the request equals
\* its state before
C19_InitializeAndListAreReadOnly ==
    [][\A req \in {request'} :
          (Serves(req)
           /\ MethodOf(req.raw) \in {S("initialize"), S("tools/list")}) =>
              /\ calls' = Calls0
              /\ compute' = compute
              /\ computeStdio' = computeStdio
              /\ ACTION_MEMORY' = ACTION_MEMORY
              /\ appended' = appended]_vars

\* tools/list has been served by a gateway whose Resource Client is built
C19_ListServedWithClient ==
    /\ Answered
    /\ ReceivedObject
    /\ ReceivedMethod = S("tools/list")
    /\ request.transport = "http"
    /\ compute = "client"
    /\ IsResult

-----------------------------------------------------------------------------
(* Tool functions side by side.  The tool functions and                     *)
(* get_recent_gcp_actions are coroutines of the agent's event loop: a tool  *)
(* function is suspended at `await client.post(...)`, and from there to its *)
(* return, _record_gcp_action included, it never awaits;                    *)
(* get_recent_gcp_actions never awaits at all.  So invocations begin in one *)
(* order and record in any other, with reads in between.                    *)

\* the instances the invocations are about, one each
InstanceNames == <<"vm1", "vm2", "vm3", "vm4", "vm5", "vm6", "vm7", "vm8">>

\* the kind of the k-th invocation
KindOf(k) == IF k % 2 = 1 THEN "start_instance" ELSE "stop_instance"

\* the arguments of the k-th invocation
ArgumentsOf(k) ==
    [project |-> S("p1"), zone |-> S("z1"), name |-> S(InstanceNames[k])]

\* a tool function is called and awaits its post
ToolBegins ==
    /\ Len(invocations) <= Capacity
    /\ Len(invocations) < Len(InstanceNames)
    /\ invocations' = Append(invocations,
                             [kind |-> KindOf(Len(invocations) + 1),
                              name |-> InstanceNames[Len(invocations) + 1],
                              done |-> FALSE])
    /\ UNCHANGED <<ACTION_MEMORY, appended, recent, compute, computeStdio,
                   request, response, pc, frame, calls, waiter, toolArgs,
                   outcome, ledgerAtSend, nCalls, backlog>>

\* the post of some invocation has returned: the rest of the tool function
\* runs to its return
ToolCompletes ==
    /\ \E k \in 1..Len(invocations) :
          /\ ~invocations[k].done
          /\ RecordGcpAction(invocations[k].kind, ArgumentsOf(k).project,
                             ArgumentsOf(k).zone, ArgumentsOf(k).name,
                             ProjectZoneName(ArgumentsOf(k)), EmptyObj)
          /\ invocations' = [invocations EXCEPT ![k].done = TRUE]
    /\ UNCHANGED <<recent, compute, computeStdio, request, response, pc, frame,
                   calls, waiter, toolArgs, outcome, ledgerAtSend, nCalls,
                   backlog>>

ConcurrentNext == ToolBegins \/ ToolCompletes \/ LedgerRecent

ConcurrentSpec == Init /\ [][ConcurrentNext]_vars

\* the records of the k-th invocation among all records appended
RecordsOf(k) ==
    {i \in 1..Len(appended) : appended[i].name = S(InstanceNames[k])}

\* the record the k-th invocation writes, appended at time ts
WholeRecord(k, ts) ==
    ActionRecord(ts, KindOf(k), S("p1"), S("z1"), S(InstanceNames[k]),
                 ProjectZoneName(ArgumentsOf(k)), EmptyObj)

\* the ledger as it stood after the first n appends
LedgerAt(n) == LastN(SubSeq(appended, 1, n), Min(n, Capacity))

\* seq is a suffix of ledger
IsSuffix(seq, ledger) ==
    Len(seq) <= Len(ledger) /\ seq = LastN(ledger, Len(seq))

\* C20: under any interleaving of concurrent tool invocations that record to
\* the ledger and concurrent recent-actions reads, each completed
\* invocation's record appears whole and exactly once, the ledger length
\* never exceeds Capacity, eviction stays oldest-first, and every read
\* returns a suffix of the ledger as it stood at a single instant
C20_ConcurrentLedgerConsistent ==
    /\ Len(ACTION_MEMORY) <= Capacity
    /\ ACTION_MEMORY = LedgerAt(Len(appended))
    /\ \A k \in 1..Len(invocations) :
          /\ Cardinality(RecordsOf(k)) = IF invocations[k].done THEN 1 ELSE 0
          /\ \A i \in RecordsOf(k) : appended[i] = WholeRecord(k, i)
    /\ recent.called =>
          \E n \in 0..Len(appended) : IsSuffix(recent.actions, LedgerAt(n))

\* invocations have recorded in another order than they began, the ledger
\* has overflowed, and a read taken in between has returned part of it
C20_OutOfOrderOverflowRead ==
    /\ Len(appended) > Capacity
    /\ \E i, j \in 1..Len(appended) :
          i < j /\ appended[i].name = S("vm2") /\ appended[j].name = S("vm1")
    /\ recent.called
    /\ recent.ledger # ACTION_MEMORY
    /\ recent.actions # <<>>
    /\ recent.actions # recent.ledger

-----------------------------------------------------------------------------
(* The order of the Resource Client calls of start_instance *)

\* the last getOperation poll of this invocation reported DONE
DoneObserved ==
    IsObj(frame.op_result) /\ Item(frame.op_result, "status") = S("DONE")

\* this step makes a call of the given sort
Makes(sort) == calls'[sort] > calls[sort]

\* the calls of start_instance, each in its place: the submit first and once,
\* getOperation only after the submit returned and before DONE was observed,
\* getInstance only after a DONE without error
CallInItsPlace ==
    /\ Makes("start") => calls.start = 0 /\ calls.getOp = 0 /\ calls.getInst = 0
    /\ Makes("getOp") =>
          calls.start = 1 /\ frame.op # JNull /\ ~DoneObserved /\ calls.getInst = 0
    /\ Makes("getInst") =>
          /\ calls.start = 1
          /\ calls.getOp >= 1
          /\ DoneObserved
          /\ ~HasKey(frame.op_result, "error")
          /\ calls.getInst < MaxInstancePolls

\* where the handler stands agrees with what it has observed
PhasesInOrder ==
    /\ pc = "op_poll" => ~DoneObserved /\ calls.start = 1 /\ calls.getInst = 0
    /\ pc = "inst_poll" => DoneObserved /\ calls.getOp >= 1
    /\ calls.start <= 1
    /\ calls.getInst <= MaxInstancePolls
    /\ StartReturned =>
          calls.start = 1 /\ calls.getOp >= 1 /\ DoneObserved /\ calls.getInst >= 1

\* C21: in every start_instance invocation the Resource Client calls occur in
\* the order: one start submit, then getOperation polls up to the first that
\* reports DONE, then between 1 and MaxInstancePolls getInstance polls; no
\* getInstance call is made before DONE was observed and no getOperation call
\* after it
C21_CallsInOrder == [](PhasesInOrder) /\ [][CallInItsPlace]_vars

\* start_instance has returned after a poll that found the operation
\* pending, a poll that found it DONE, and more than one instance poll
C21_ReturnedAfterBothLoops ==
    /\ StartReturned
    /\ calls.start = 1
    /\ calls.getOp = 2
    /\ calls.getInst > 1

-----------------------------------------------------------------------------
(* The id of a response *)

\* C22: every response the gateway returns for a request whose body parsed
\* successfully, a result or an error, for every method and tool (unknown
\* ones included), carries an id equal to the id of that request
C22_ResponseCarriesRequestId ==
    (ResponseSent /\ ReceivedObject) =>
        RpcMessage /\ HasKey(response.body, "id")
                   /\ Item(response.body, "id") = ReceivedId

====
